---- MODULE Spec2Model ----
(***************************************************************************)
(* Model of three components of the buttplug device server:                *)
(*   - LovenseServiceHardware (polling hardware and its monitoring task),  *)
(*     lovense_connect_service_hardware.rs                                 *)
(*   - BtlePlugCommunicationManager (command channel to the adapter task), *)
(*     btleplug_comm_manager.rs                                            *)
(*   - ButtplugDevice (construction, identity, name), device/mod.rs        *)
(* Each component has its own specification (SpecHw, SpecMgr, SpecDev);    *)
(* the variables of the other components stay at their initial values.     *)
(***************************************************************************)
EXTENDS Integers, Sequences, FiniteSets, TLC

VARIABLES
  \* ---- LovenseServiceHardware ----
  toy_id,         \* the toy id the hardware was constructed for
  taskPc,         \* monitoring task: "polling" (inside loop) or "exited"
  battery_level,  \* Arc<AtomicU8> shared by the task and the handle
  polls,          \* number of get_local_info calls made by the task
  emitted,        \* number of Disconnected events handed to sender.send
  subs,           \* live broadcast receivers, each the queue of events it holds
  calls,          \* number of HardwareInternal operations invoked so far
  netCalls,       \* number of outbound requests issued by write_value
  hwRet,          \* what the latest HardwareInternal operation returned
  lastPoll,       \* what the task's latest query yielded, for this toy
  lastWrite,      \* payload and request outcome of the latest write_value
  subMeta,        \* per receiver: live, events sent before it (since), taken (got),
                  \* overwritten unread (lost), send numbers of the queued events (pos)
  disconnected,   \* disconnect() has completed on the handle
  dropped,        \* the handle has been dropped
  extraTasks,     \* monitoring tasks of the hardware built by later connect() calls
  \* ---- BtlePlugCommunicationManager ----
  cmdQueue,       \* Adapter Commands buffered in the mpsc channel
  rxDropped,      \* the background task has exited and dropped the receiver
  received,       \* commands the background task has taken, in order
  callPc,         \* per caller: "idle", "sending", "suspended", "returned"
  callCmd,        \* per caller: the command its call sends
  callRet,        \* per caller: result of its latest call, and whether it waited
  callOp,         \* per caller: the method of its latest call
  sent,           \* commands whose send completed, in completion order
  taskScanning,   \* the background task's own scanning state
  flags,          \* the flags scanning_status has returned, one per call
  \* ---- ButtplugDevice ----
  tcdPc,          \* try_create_device: "idle", "connecting", "creating", "returned"
  tcdRet,         \* what try_create_device returned
  tcdClaimed,     \* whether the protocol factory passed in claims the device passed in
  connOut,        \* what device_creator.try_create_device_impl(..).await yielded
  createOut,      \* what protocol_builder.create(..).await yielded
  connectCalls,   \* number of try_create_device_impl calls
  createCalls,    \* number of protocol_builder.create calls
  device,         \* the ButtplugDevice, once constructed
  hwOps,          \* read/write/subscribe/unsubscribe calls that reached the handle
  hwDisconnects,  \* disconnect calls that reached the handle
  devSubs,        \* event receivers handed out by event_stream
  devCalls,       \* number of ButtplugDevice methods invoked so far
  devRet          \* what the latest ButtplugDevice method returned

hwVars == <<toy_id, taskPc, battery_level, polls, emitted, subs, calls, netCalls, hwRet,
            lastPoll, lastWrite, subMeta, disconnected, dropped, extraTasks>>

mgrVars == <<cmdQueue, rxDropped, received, callPc, callCmd, callRet,
             callOp, sent, taskScanning, flags>>

devVars == <<tcdPc, tcdRet, tcdClaimed, connOut, createOut, connectCalls, createCalls, device,
             hwOps, hwDisconnects, devSubs, devCalls, devRet>>

vars == <<hwVars, mgrVars, devVars>>
otherThanHw == <<mgrVars, devVars>>
otherThanMgr == <<hwVars, devVars>>
otherThanDev == <<hwVars, mgrVars>>

(***************************************************************************)
(* Bounds of the model.                                                    *)
(***************************************************************************)
MaxPolls == 2       \* queries the monitoring task may issue
MaxCalls == 2       \* HardwareInternal operations invoked on the handle
MaxSubs == 2        \* event_stream() subscriptions alive at once
MaxToys == 1        \* entries in one get_local_info result
ChannelBound == 2   \* capacity of the command channel (channel(256) in the source)
MaxReceived == 2    \* commands the background task takes before it stops taking
MaxDevCalls == 3    \* ButtplugDevice methods invoked on the device
MaxFlags == 2       \* scanning_status() calls
EventCapacity == 1  \* capacity of the broadcast channel (channel(256) in the source)
MaxConnects == 2    \* connect() calls on the connector, the first one included

BatteryInit == 100  \* AtomicU8::new(100)

(***************************************************************************)
(* Data of the external Lovense Connect service.                           *)
(***************************************************************************)
ToyIds == {"toyA", "toyB"}
RawBattery == {-1, 57, 101}
Toys == [id : ToyIds, connected : BOOLEAN, battery : RawBattery]
None == [some |-> FALSE]
Some(d) == [some |-> TRUE, data |-> d]
SeqsUpTo(S, n) == UNION {[1..k -> S] : k \in 0..n}
\* every value get_local_info(&host).await can yield
QueryResults == {None} \cup {Some(d) : d \in SeqsUpTo(Toys, MaxToys)}

Disconnected(id) == [type |-> "Disconnected", id |-> id]

NoRet == [op |-> "none", kind |-> "none"]
Ok(op) == [op |-> op, kind |-> "Ok"]
OkData(op, d) == [op |-> op, kind |-> "Ok", data |-> d]
Err(op, e) == [op |-> op, kind |-> "Err", err |-> e]
Panic(op) == [op |-> op, kind |-> "Panic"]

(***************************************************************************)
(* toy.battery.clamp(0, 100) as u8                                         *)
(***************************************************************************)
ClampNone(b) == b % 256
ClampU8(b) == (IF b < 0 THEN 0 ELSE IF b > 100 THEN 100 ELSE b) % 256

(***************************************************************************)
(* broadcast::Sender::send: every live receiver gets the event; with no    *)
(* receiver the send fails and the event is dropped (the task ignores the  *)
(* error: let _ = ...).  The channel retains EventCapacity values: a       *)
(* receiver that has that many unread loses its oldest one to the new one, *)
(* and the sender never waits.                                             *)
(***************************************************************************)
PushKeepsAll(q, x) == Append(q, x)
Push(q, x) == IF Len(q) < EventCapacity THEN Append(q, x) ELSE Append(Tail(q), x)
Broadcast(rs, meta, x) ==
  [i \in 1..Len(rs) |-> IF meta[i].live THEN Push(rs[i], x) ELSE rs[i]]
\* the receivers' bookkeeping for the send numbered n
BroadcastMeta(rs, meta, n) ==
  [i \in 1..Len(rs) |->
     IF meta[i].live
       THEN [meta[i] EXCEPT !.pos = Push(@, n),
                            !.lost = IF Len(rs[i]) >= EventCapacity THEN @ + 1 ELSE @]
       ELSE meta[i]]
\* Sender::subscribe: a receiver that starts after everything sent so far
NewReceiver(n) == [live |-> TRUE, since |-> n, got |-> 0, lost |-> 0, pos |-> <<>>]

(***************************************************************************)
(* The for loop over info.data of one successful query: skip entries of    *)
(* other toys; at the first entry of this toy either send Disconnected     *)
(* (not connected) or store the clamped battery; both `break` statements   *)
(* leave the for loop only.                                                *)
(***************************************************************************)
\* indices of the entries the loop does not `continue` past
OwnEntries(data) == {i \in 1..Len(data) : data[i].id = toy_id}
FirstOf(S) == CHOOSE i \in S : \A j \in S : i <= j
ForToysAbsentDisconnects(data, bat) ==
  IF OwnEntries(data) = {} THEN [battery |-> bat, send |-> TRUE]
  ELSE LET toy == data[FirstOf(OwnEntries(data))]
       IN  IF ~toy.connected THEN [battery |-> bat, send |-> TRUE]
           ELSE [battery |-> ClampU8(toy.battery), send |-> FALSE]
ForToys(data, bat) ==
  IF OwnEntries(data) = {} THEN [battery |-> bat, send |-> FALSE]
  ELSE LET toy == data[FirstOf(OwnEntries(data))]
       IN  IF ~toy.connected THEN [battery |-> bat, send |-> TRUE]
           ELSE [battery |-> ClampU8(toy.battery), send |-> FALSE]

(***************************************************************************)
(* One iteration of the task's `loop`: match get_local_info(..).await.     *)
(* Only the None arm breaks out of `loop`.                                 *)
(***************************************************************************)
LoopIterationRetry(info, bat) ==
  IF ~info.some
    THEN [battery |-> bat, send |-> TRUE, exit |-> FALSE]
    ELSE LET f == ForToys(info.data, bat)
         IN  [battery |-> f.battery, send |-> f.send, exit |-> FALSE]
LoopIteration(info, bat) ==
  IF ~info.some
    THEN [battery |-> bat, send |-> TRUE, exit |-> TRUE]
    ELSE LET f == ForToys(info.data, bat)
         IN  [battery |-> f.battery, send |-> f.send, exit |-> FALSE]

(***************************************************************************)
(* What one query says about this toy: the query failed, the result has no *)
(* entry for it, or its first entry is connected (with the raw battery     *)
(* value reported) or not connected.                                       *)
(***************************************************************************)
PollKind(info) ==
  IF ~info.some THEN [kind |-> "failed", raw |-> 0]
  ELSE IF OwnEntries(info.data) = {} THEN [kind |-> "absent", raw |-> 0]
  ELSE LET toy == info.data[FirstOf(OwnEntries(info.data))]
       IN  IF toy.connected THEN [kind |-> "connected", raw |-> toy.battery]
           ELSE [kind |-> "not_connected", raw |-> 0]

(***************************************************************************)
(* LovenseServiceHardware::new: channel with no receiver kept, battery     *)
(* cache at 100, monitoring task spawned.                                  *)
(***************************************************************************)
HwInit ==
  /\ toy_id \in ToyIds
  /\ taskPc = "polling"
  /\ battery_level = BatteryInit
  /\ polls = 0
  /\ emitted = 0
  /\ subs = <<>>
  /\ calls = 0
  /\ netCalls = 0
  /\ hwRet = NoRet
  /\ lastPoll = [kind |-> "none", raw |-> 0]
  /\ lastWrite = [utf8 |-> TRUE, response |-> FALSE, status |-> 0, made |-> FALSE]
  /\ subMeta = <<>>
  /\ disconnected = FALSE
  /\ dropped = FALSE
  /\ extraTasks = <<>>

\* the monitoring task performs one query and handles its result
Poll(info) ==
  /\ taskPc = "polling"
  /\ polls < MaxPolls
  /\ polls' = polls + 1
  /\ LET r == LoopIteration(info, battery_level)
     IN  /\ battery_level' = r.battery
         /\ emitted' = IF r.send THEN emitted + 1 ELSE emitted
         /\ subs' = IF r.send THEN Broadcast(subs, subMeta, Disconnected(toy_id)) ELSE subs
         /\ subMeta' = IF r.send THEN BroadcastMeta(subs, subMeta, emitted + 1) ELSE subMeta
         /\ taskPc' = IF r.exit THEN "exited" ELSE "polling"
  /\ lastPoll' = PollKind(info)
  /\ UNCHANGED <<toy_id, calls, netCalls, hwRet, lastWrite>>
  /\ UNCHANGED otherThanHw
  /\ UNCHANGED <<disconnected, dropped, extraTasks>>

\* HardwareInternal::event_stream: self.event_sender.subscribe()
event_streamReplaysLast ==
  /\ calls < MaxCalls
  /\ ~dropped
  /\ Len(subs) < MaxSubs
  /\ calls' = calls + 1
  /\ subs' = Append(subs, IF emitted > 0 THEN <<Disconnected(toy_id)>> ELSE <<>>)
  /\ subMeta' = Append(subMeta,
                   IF emitted > 0
                     THEN [NewReceiver(emitted - 1) EXCEPT !.pos = <<emitted>>]
                     ELSE NewReceiver(emitted))
  /\ hwRet' = Ok("event_stream")
  /\ UNCHANGED <<toy_id, taskPc, battery_level, polls, emitted, netCalls, lastPoll, lastWrite>>
  /\ UNCHANGED otherThanHw
  /\ UNCHANGED <<disconnected, dropped, extraTasks>>
event_stream ==
  /\ calls < MaxCalls
  /\ ~dropped
  /\ Len(subs) < MaxSubs
  /\ calls' = calls + 1
  /\ subs' = Append(subs, <<>>)
  /\ subMeta' = Append(subMeta, NewReceiver(emitted))
  /\ hwRet' = Ok("event_stream")
  /\ UNCHANGED <<toy_id, taskPc, battery_level, polls, emitted, netCalls, lastPoll, lastWrite>>
  /\ UNCHANGED otherThanHw
  /\ UNCHANGED <<disconnected, dropped, extraTasks>>

\* HardwareInternal::disconnect: future::ready(Ok(()))
disconnect ==
  /\ calls < MaxCalls
  /\ ~dropped
  /\ calls' = calls + 1
  /\ hwRet' = Ok("disconnect")
  /\ disconnected' = TRUE
  /\ UNCHANGED <<toy_id, taskPc, battery_level, polls, emitted, subs, netCalls, lastPoll, lastWrite>>
  /\ UNCHANGED otherThanHw
  /\ UNCHANGED <<subMeta, dropped, extraTasks>>

\* HardwareInternal::read_value: the cached battery level as a one-byte reading
read_value ==
  /\ calls < MaxCalls
  /\ ~dropped
  /\ calls' = calls + 1
  /\ hwRet' = OkData("read_value", <<battery_level>>)
  /\ UNCHANGED <<toy_id, taskPc, battery_level, polls, emitted, subs, netCalls, lastPoll, lastWrite>>
  /\ UNCHANGED otherThanHw
  /\ UNCHANGED <<subMeta, disconnected, dropped, extraTasks>>

(***************************************************************************)
(* HardwareInternal::write_value.  msg.data is either valid UTF-8 or not   *)
(* (from_utf8(..).expect panics); reqwest::get yields Ok(response) for any *)
(* response the service sends, whatever its HTTP status, and Err only when *)
(* no response was obtained.                                               *)
(***************************************************************************)
WriteData == {[utf8 |-> TRUE], [utf8 |-> FALSE]}
HttpOutcomes == {[response |-> TRUE, status |-> 200],
                 [response |-> TRUE, status |-> 500],
                 [response |-> FALSE, status |-> 0]}
WriteResultChecksStatus(out) ==
  IF out.response /\ out.status = 200 THEN Ok("write_value")
  ELSE Err("write_value", "UnhandledCommand")
WriteResult(out) ==
  IF out.response THEN Ok("write_value")
  ELSE Err("write_value", "UnhandledCommand")
write_value(data, out) ==
  /\ calls < MaxCalls
  /\ ~dropped
  /\ calls' = calls + 1
  /\ IF ~data.utf8
       THEN /\ hwRet' = Panic("write_value")
            /\ netCalls' = netCalls
            /\ lastWrite' = [utf8 |-> FALSE, response |-> FALSE, status |-> 0, made |-> FALSE]
       ELSE /\ netCalls' = netCalls + 1
            /\ hwRet' = WriteResult(out)
            /\ lastWrite' = [utf8 |-> TRUE, response |-> out.response,
                             status |-> out.status, made |-> TRUE]
  /\ UNCHANGED <<toy_id, taskPc, battery_level, polls, emitted, subs, lastPoll>>
  /\ UNCHANGED otherThanHw
  /\ UNCHANGED <<subMeta, disconnected, dropped, extraTasks>>

\* HardwareInternal::subscribe / unsubscribe: future::ready(Err(UnhandledCommand))
subscribeCreatesReceiver ==
  /\ calls < MaxCalls
  /\ ~dropped
  /\ calls' = calls + 1
  /\ hwRet' = Err("subscribe", "UnhandledCommand")
  /\ subs' = IF Len(subs) < MaxSubs THEN Append(subs, <<>>) ELSE subs
  /\ subMeta' = IF Len(subs) < MaxSubs THEN Append(subMeta, NewReceiver(emitted)) ELSE subMeta
  /\ UNCHANGED <<toy_id, taskPc, battery_level, polls, emitted, netCalls, lastPoll, lastWrite>>
  /\ UNCHANGED otherThanHw
  /\ UNCHANGED <<disconnected, dropped, extraTasks>>
subscribe ==
  /\ calls < MaxCalls
  /\ ~dropped
  /\ calls' = calls + 1
  /\ hwRet' = Err("subscribe", "UnhandledCommand")
  /\ UNCHANGED <<toy_id, taskPc, battery_level, polls, emitted, subs, netCalls, lastPoll, lastWrite>>
  /\ UNCHANGED otherThanHw
  /\ UNCHANGED <<subMeta, disconnected, dropped, extraTasks>>
unsubscribe ==
  /\ calls < MaxCalls
  /\ ~dropped
  /\ calls' = calls + 1
  /\ hwRet' = Err("unsubscribe", "UnhandledCommand")
  /\ UNCHANGED <<toy_id, taskPc, battery_level, polls, emitted, subs, netCalls, lastPoll, lastWrite>>
  /\ UNCHANGED otherThanHw
  /\ UNCHANGED <<subMeta, disconnected, dropped, extraTasks>>

\* a holder of receiver i takes its next event (Receiver::recv)
recv(i) ==
  /\ i \in 1..Len(subs)
  /\ subMeta[i].live
  /\ subs[i] # <<>>
  /\ subs' = [subs EXCEPT ![i] = Tail(@)]
  /\ subMeta' = [subMeta EXCEPT ![i].pos = Tail(@), ![i].got = @ + 1]
  /\ UNCHANGED <<toy_id, taskPc, battery_level, polls, emitted, calls, netCalls, hwRet,
                 lastPoll, lastWrite, disconnected, dropped, extraTasks>>
  /\ UNCHANGED otherThanHw

\* a holder of receiver i drops it: what it had not read is gone
drop_subscription(i) ==
  /\ i \in 1..Len(subs)
  /\ subMeta[i].live
  /\ subs' = [subs EXCEPT ![i] = <<>>]
  /\ subMeta' = [subMeta EXCEPT ![i].live = FALSE, ![i].pos = <<>>]
  /\ UNCHANGED <<toy_id, taskPc, battery_level, polls, emitted, calls, netCalls, hwRet,
                 lastPoll, lastWrite, disconnected, dropped, extraTasks>>
  /\ UNCHANGED otherThanHw

(***************************************************************************)
(* The handle is dropped, by its owner or by try_create_device when        *)
(* protocol_builder.create fails and `?` drops sharable_device_impl.       *)
(* LovenseServiceHardware has no Drop impl and the task holds its own      *)
(* clones of the sender and of the battery cell: nothing reaches the task. *)
(***************************************************************************)
drop_handleAbortsTask ==
  /\ ~dropped
  /\ dropped' = TRUE
  /\ taskPc' = "exited"
  /\ UNCHANGED <<toy_id, battery_level, polls, emitted, subs, calls, netCalls, hwRet,
                 lastPoll, lastWrite, subMeta, disconnected, extraTasks>>
  /\ UNCHANGED otherThanHw
drop_handle ==
  /\ ~dropped
  /\ dropped' = TRUE
  /\ UNCHANGED <<toy_id, taskPc, battery_level, polls, emitted, subs, calls, netCalls, hwRet,
                 lastPoll, lastWrite, subMeta, disconnected, extraTasks>>
  /\ UNCHANGED otherThanHw

\* LovenseServiceHardwareConnector::connect called once more: another
\* LovenseServiceHardware::new, which spawns a monitoring task of its own
connect ==
  /\ 1 + Len(extraTasks) < MaxConnects
  /\ extraTasks' = Append(extraTasks, "polling")
  /\ UNCHANGED <<toy_id, taskPc, battery_level, polls, emitted, subs, calls, netCalls, hwRet,
                 lastPoll, lastWrite, subMeta, disconnected, dropped>>
  /\ UNCHANGED otherThanHw

\* one query of the monitoring task of a later hardware
PollExtra(k, info) ==
  /\ k \in 1..Len(extraTasks)
  /\ extraTasks[k] = "polling"
  /\ extraTasks' = [extraTasks EXCEPT ![k] =
                      IF LoopIteration(info, BatteryInit).exit THEN "exited" ELSE "polling"]
  /\ UNCHANGED <<toy_id, taskPc, battery_level, polls, emitted, subs, calls, netCalls, hwRet,
                 lastPoll, lastWrite, subMeta, disconnected, dropped>>
  /\ UNCHANGED otherThanHw

HwNext ==
  \/ \E info \in QueryResults : Poll(info)
  \/ event_stream
  \/ disconnect
  \/ read_value
  \/ \E data \in WriteData, out \in HttpOutcomes : write_value(data, out)
  \/ subscribe
  \/ unsubscribe

\* query results that differ in what they say of the toys' connection only
EventQueryResults ==
  {info \in QueryResults :
     info.some => \A k \in 1..Len(info.data) : info.data[k].battery = 57}

\* the hardware, its receivers' holders and the connector: the task's
\* queries, event_stream, disconnect, the receivers, the handle's drop and
\* further connects
HwEventsNext ==
  \/ \E info \in EventQueryResults : Poll(info)
  \/ event_stream
  \/ disconnect
  \/ \E i \in 1..MaxSubs : recv(i)
  \/ \E i \in 1..MaxSubs : drop_subscription(i)
  \/ drop_handle
  \/ connect
  \/ \E k \in 1..MaxConnects, info \in {None, Some(<<>>)} : PollExtra(k, info)


(***************************************************************************)
(* BtlePlugCommunicationManager.  The manager holds the Sender of a        *)
(* bounded mpsc channel; the background task owns the Receiver.            *)
(***************************************************************************)
Callers == {"c1", "c2"}
NoCallRet == [kind |-> "none", waited |-> FALSE]

\* BtlePlugCommunicationManager::new: channel(..), task spawned
MgrInit ==
  /\ cmdQueue = <<>>
  /\ rxDropped = FALSE
  /\ received = <<>>
  /\ callPc = [c \in Callers |-> "idle"]
  /\ callCmd = [c \in Callers |-> "none"]
  /\ callRet = [c \in Callers |-> NoCallRet]
  /\ callOp = [c \in Callers |-> "none"]
  /\ sent = <<>>
  /\ taskScanning = FALSE
  /\ flags = <<>>

\* the if/else on send(..).await.is_err() in start_scanning and stop_scanning
StartResultIgnoresError(is_err) == "Ok"
StartResult(is_err) == IF is_err THEN "DeviceNotAvailable" ELSE "Ok"
StopResultIgnoresError(is_err) == "Ok"
StopResult(is_err) == IF is_err THEN "DeviceNotAvailable" ELSE "Ok"
ScanResult(cmd, is_err) ==
  IF cmd = "StartScanning" THEN StartResult(is_err) ELSE StopResult(is_err)

\* start_scanning(): clone the sender, build the future that sends StartScanning
start_scanningSendsStop(c) ==
  /\ callPc[c] \in {"idle", "returned"}
  /\ callPc' = [callPc EXCEPT ![c] = "sending"]
  /\ callCmd' = [callCmd EXCEPT ![c] = "StopScanning"]
  /\ callRet' = [callRet EXCEPT ![c] = NoCallRet]
  /\ callOp' = [callOp EXCEPT ![c] = "start_scanning"]
  /\ UNCHANGED <<cmdQueue, rxDropped, received, sent, taskScanning, flags>>
  /\ UNCHANGED otherThanMgr
start_scanning(c) ==
  /\ callPc[c] \in {"idle", "returned"}
  /\ callPc' = [callPc EXCEPT ![c] = "sending"]
  /\ callCmd' = [callCmd EXCEPT ![c] = "StartScanning"]
  /\ callRet' = [callRet EXCEPT ![c] = NoCallRet]
  /\ callOp' = [callOp EXCEPT ![c] = "start_scanning"]
  /\ UNCHANGED <<cmdQueue, rxDropped, received, sent, taskScanning, flags>>
  /\ UNCHANGED otherThanMgr

\* stop_scanning(): clone the sender, build the future that sends StopScanning
stop_scanning(c) ==
  /\ callPc[c] \in {"idle", "returned"}
  /\ callPc' = [callPc EXCEPT ![c] = "sending"]
  /\ callCmd' = [callCmd EXCEPT ![c] = "StopScanning"]
  /\ callRet' = [callRet EXCEPT ![c] = NoCallRet]
  /\ callOp' = [callOp EXCEPT ![c] = "stop_scanning"]
  /\ UNCHANGED <<cmdQueue, rxDropped, received, sent, taskScanning, flags>>
  /\ UNCHANGED otherThanMgr

(***************************************************************************)
(* adapter_event_sender.send(cmd).await, polled: with the receiver dropped *)
(* the send fails at once; with room in the channel the command is         *)
(* enqueued; otherwise the future is pending until room appears or the     *)
(* channel closes.                                                         *)
(***************************************************************************)
SendAwaitNoWakeOnClose(c) ==
  /\ callPc[c] \in {"sending", "suspended"}
  /\ IF rxDropped
       THEN /\ callPc[c] = "sending"
            /\ callPc' = [callPc EXCEPT ![c] = "returned"]
            /\ callRet' = [callRet EXCEPT ![c] =
                 [kind |-> ScanResult(callCmd[c], TRUE), waited |-> FALSE]]
            /\ UNCHANGED <<cmdQueue, sent>>
       ELSE IF Len(cmdQueue) < ChannelBound
       THEN /\ cmdQueue' = Append(cmdQueue, callCmd[c])
            /\ sent' = Append(sent, callCmd[c])
            /\ callPc' = [callPc EXCEPT ![c] = "returned"]
            /\ callRet' = [callRet EXCEPT ![c] =
                 [kind |-> ScanResult(callCmd[c], FALSE), waited |-> callPc[c] = "suspended"]]
       ELSE /\ callPc[c] = "sending"
            /\ callPc' = [callPc EXCEPT ![c] = "suspended"]
            /\ UNCHANGED <<cmdQueue, sent, callRet>>
  /\ UNCHANGED <<rxDropped, received, callCmd, callOp, taskScanning, flags>>
  /\ UNCHANGED otherThanMgr
SendAwait(c) ==
  /\ callPc[c] \in {"sending", "suspended"}
  /\ IF rxDropped
       THEN /\ callPc' = [callPc EXCEPT ![c] = "returned"]
            /\ callRet' = [callRet EXCEPT ![c] =
                 [kind |-> ScanResult(callCmd[c], TRUE), waited |-> callPc[c] = "suspended"]]
            /\ UNCHANGED <<cmdQueue, sent>>
       ELSE IF Len(cmdQueue) < ChannelBound
       THEN /\ cmdQueue' = Append(cmdQueue, callCmd[c])
            /\ sent' = Append(sent, callCmd[c])
            /\ callPc' = [callPc EXCEPT ![c] = "returned"]
            /\ callRet' = [callRet EXCEPT ![c] =
                 [kind |-> ScanResult(callCmd[c], FALSE), waited |-> callPc[c] = "suspended"]]
       ELSE /\ callPc[c] = "sending"
            /\ callPc' = [callPc EXCEPT ![c] = "suspended"]
            /\ UNCHANGED <<cmdQueue, sent, callRet>>
  /\ UNCHANGED <<rxDropped, received, callCmd, callOp, taskScanning, flags>>
  /\ UNCHANGED otherThanMgr

\* scanning_status(): Arc::new(AtomicBool::new(false)), a flag of its own
scanning_statusShared ==
  /\ Len(flags) < MaxFlags
  /\ flags' = Append(flags, taskScanning)
  /\ UNCHANGED <<cmdQueue, rxDropped, received, callPc, callCmd, callRet, callOp,
                 sent, taskScanning>>
  /\ UNCHANGED otherThanMgr
scanning_status ==
  /\ Len(flags) < MaxFlags
  /\ flags' = Append(flags, FALSE)
  /\ UNCHANGED <<cmdQueue, rxDropped, received, callPc, callCmd, callRet, callOp,
                 sent, taskScanning>>
  /\ UNCHANGED otherThanMgr

\* the background task takes the next Adapter Command from the channel and
\* starts or stops scanning
TaskRecv ==
  /\ ~rxDropped
  /\ cmdQueue # <<>>
  /\ Len(received) < MaxReceived
  /\ received' = Append(received, Head(cmdQueue))
  /\ cmdQueue' = Tail(cmdQueue)
  /\ taskScanning' = (Head(cmdQueue) = "StartScanning")
  /\ UNCHANGED <<rxDropped, callPc, callCmd, callRet, callOp, sent, flags>>
  /\ UNCHANGED otherThanMgr

\* the background task exits: the receiver is dropped, the channel is closed
\* and what it still buffered is discarded
TaskExit ==
  /\ ~rxDropped
  /\ rxDropped' = TRUE
  /\ cmdQueue' = <<>>
  /\ taskScanning' = FALSE
  /\ UNCHANGED <<received, callPc, callCmd, callRet, callOp, sent, flags>>
  /\ UNCHANGED otherThanMgr

MgrNext ==
  \/ \E c \in Callers : start_scanning(c)
  \/ \E c \in Callers : stop_scanning(c)
  \/ \E c \in Callers : SendAwait(c)
  \/ scanning_status
  \/ TaskRecv
  \/ TaskExit

(***************************************************************************)
(* ButtplugDevice.  The connector (ButtplugDeviceImplCreator), the         *)
(* protocol factory and the protocol are collaborators: what they yield is *)
(* an input.                                                               *)
(***************************************************************************)
Addresses == {"addr1", "addr2"}
HwNames == {"LVS-Z001"}
ConnectErrors == {"DeviceConnectionError", "DeviceCommunicationError"}
CreateErrors == {"ProtocolSpecificError", "DeviceCommunicationError"}
Protocols == [name : {"Lovense Hush", "Lovense Edge"}, identifier : {"lovense"},
              attributes : {"Z", "P"}, raw : BOOLEAN]
DisplayNames == {"Alice", "Bob"}
Messages == {[type |-> "VibrateCmd", endpoint |-> "Tx"],
             [type |-> "RotateCmd", endpoint |-> "Tx"],
             [type |-> "RawSubscribeCmd", endpoint |-> "Tx"],
             [type |-> "RawSubscribeCmd", endpoint |-> "Rx"]}
ConnectOutcomes ==
  {[ok |-> FALSE, err |-> e, impl |-> [address |-> "", name |-> ""]] : e \in ConnectErrors}
  \cup {[ok |-> TRUE, err |-> "", impl |-> [address |-> a, name |-> n]] :
          a \in Addresses, n \in HwNames}
NoProtocol == [name |-> "", identifier |-> "", attributes |-> "", raw |-> FALSE]
CreateOutcomes ==
  {[ok |-> FALSE, err |-> e, protocol |-> NoProtocol] : e \in CreateErrors}
  \cup {[ok |-> TRUE, err |-> "", protocol |-> p] : p \in Protocols}
NoOutcome == [ok |-> FALSE, err |-> "not called"]

NoDevice == [built |-> FALSE]
NoTcdRet == [kind |-> "none", err |-> ""]
NoDevRet == [op |-> "none"]
DevRet(op, v) == [op |-> op, value |-> v]

\* ProtocolDeviceIdentifier::new(address, protocol identifier, attributes identifier)
ProtocolDeviceIdentifier(address, identifier, attributes) ==
  <<address, identifier, attributes>>

\* ButtplugDevice::new
ButtplugDevice_newFromName(protocol, impl) ==
  [built |-> TRUE,
   device_identifier |->
     ProtocolDeviceIdentifier(impl.name, protocol.identifier, protocol.attributes),
   protocol |-> protocol,
   device |-> impl,
   display_name |-> None]
ButtplugDevice_new(protocol, impl) ==
  [built |-> TRUE,
   device_identifier |->
     ProtocolDeviceIdentifier(impl.address, protocol.identifier, protocol.attributes),
   protocol |-> protocol,
   device |-> impl,
   display_name |-> None]

\* ButtplugProtocol::supports_message: raw messages are supported when the
\* protocol allows raw access; of the others, this protocol supports VibrateCmd
SupportsMessage(protocol, msg) ==
  IF msg.type = "RawSubscribeCmd"
    THEN (IF protocol.raw THEN "Ok" ELSE "Err")
    ELSE (IF msg.type = "VibrateCmd" THEN "Ok" ELSE "Err")

DevInit ==
  /\ tcdPc = "idle"
  /\ tcdRet = NoTcdRet
  /\ tcdClaimed = TRUE
  /\ connOut = NoOutcome
  /\ createOut = NoOutcome
  /\ connectCalls = 0
  /\ createCalls = 0
  /\ device = NoDevice
  /\ hwOps = 0
  /\ hwDisconnects = 0
  /\ devSubs = 0
  /\ devCalls = 0
  /\ devRet = NoDevRet

\* try_create_device(protocol_builder, device_creator) is called with a
\* factory that claims the device or one that does not; it does not look at
\* that and calls device_creator.try_create_device_impl
try_create_device(claimed) ==
  /\ tcdPc = "idle"
  /\ tcdPc' = "connecting"
  /\ tcdClaimed' = claimed
  /\ connectCalls' = connectCalls + 1
  /\ UNCHANGED <<tcdRet, connOut, createOut, createCalls, device,
                 hwOps, hwDisconnects, devSubs, devCalls, devRet>>
  /\ UNCHANGED otherThanDev

\* try_create_device_impl(..).await? : an error returns it from
\* try_create_device; otherwise the handle is wrapped in an Arc and
\* protocol_builder.create is called
TcdConnectedUnchecked(out) ==
  /\ tcdPc = "connecting"
  /\ connOut' = out
  /\ tcdPc' = "creating"
  /\ createCalls' = createCalls + 1
  /\ UNCHANGED <<tcdRet, tcdClaimed, createOut, connectCalls, device,
                 hwOps, hwDisconnects, devSubs, devCalls, devRet>>
  /\ UNCHANGED otherThanDev
TcdConnected(out) ==
  /\ tcdPc = "connecting"
  /\ connOut' = out
  /\ IF ~out.ok
       THEN /\ tcdPc' = "returned"
            /\ tcdRet' = [kind |-> "Err", err |-> out.err]
            /\ UNCHANGED createCalls
       ELSE /\ tcdPc' = "creating"
            /\ createCalls' = createCalls + 1
            /\ UNCHANGED tcdRet
  /\ UNCHANGED <<tcdClaimed, createOut, connectCalls, device,
                 hwOps, hwDisconnects, devSubs, devCalls, devRet>>
  /\ UNCHANGED otherThanDev

\* protocol_builder.create(..).await? : an error returns it; otherwise
\* Ok(Some(ButtplugDevice::new(protocol_impl, sharable_device_impl)))
TcdCreated(out) ==
  /\ tcdPc = "creating"
  /\ createOut' = out
  /\ tcdPc' = "returned"
  /\ IF ~out.ok
       THEN /\ tcdRet' = [kind |-> "Err", err |-> out.err]
            /\ UNCHANGED device
       ELSE /\ tcdRet' = [kind |-> "OkSome", err |-> ""]
            /\ device' = ButtplugDevice_new(out.protocol, connOut.impl)
  /\ UNCHANGED <<tcdClaimed, connOut, connectCalls, createCalls,
                 hwOps, hwDisconnects, devSubs, devCalls, devRet>>
  /\ UNCHANGED otherThanDev

\* a ButtplugDevice method can be called on a constructed device
CanCall == device.built /\ devCalls < MaxDevCalls

\* ButtplugDevice::device_identifier
device_identifier ==
  /\ CanCall
  /\ devCalls' = devCalls + 1
  /\ devRet' = DevRet("device_identifier", device.device_identifier)
  /\ UNCHANGED <<tcdPc, tcdRet, tcdClaimed, connOut, createOut, connectCalls, createCalls, device,
                 hwOps, hwDisconnects, devSubs>>
  /\ UNCHANGED otherThanDev

\* ButtplugDevice::display_name
display_name ==
  /\ CanCall
  /\ devCalls' = devCalls + 1
  /\ devRet' = DevRet("display_name", device.display_name)
  /\ UNCHANGED <<tcdPc, tcdRet, tcdClaimed, connOut, createOut, connectCalls, createCalls, device,
                 hwOps, hwDisconnects, devSubs>>
  /\ UNCHANGED otherThanDev

\* display_name: OnceCell<String>, set(v): a cell that holds a value keeps it
OnceCellSetOverwrites(cell, v) == Some(v)
OnceCellSet(cell, v) == IF cell.some THEN cell ELSE Some(v)

\* the display name is set: OnceCell keeps the first value
set_display_name(n) ==
  /\ CanCall
  /\ devCalls' = devCalls + 1
  /\ device' = [device EXCEPT !.display_name = OnceCellSet(device.display_name, n)]
  /\ devRet' = DevRet("set_display_name", ~device.display_name.some)
  /\ UNCHANGED <<tcdPc, tcdRet, tcdClaimed, connOut, createOut, connectCalls, createCalls,
                 hwOps, hwDisconnects, devSubs>>
  /\ UNCHANGED otherThanDev

\* ButtplugDevice::name: the protocol's name, with the raw suffix when the
\* protocol supports RawSubscribeCmd::new(1, Endpoint::Tx)
DeviceNameAlwaysRaw(protocol) == protocol.name \o " (Raw Messages Allowed)"
DeviceName(protocol) ==
  IF SupportsMessage(protocol, [type |-> "RawSubscribeCmd", endpoint |-> "Tx"]) = "Ok"
    THEN protocol.name \o " (Raw Messages Allowed)"
    ELSE protocol.name
name ==
  /\ CanCall
  /\ devCalls' = devCalls + 1
  /\ devRet' = DevRet("name", DeviceName(device.protocol))
  /\ UNCHANGED <<tcdPc, tcdRet, tcdClaimed, connOut, createOut, connectCalls, createCalls, device,
                 hwOps, hwDisconnects, devSubs>>
  /\ UNCHANGED otherThanDev

\* ButtplugDevice::disconnect: self.device.disconnect()
device_disconnect ==
  /\ CanCall
  /\ devCalls' = devCalls + 1
  /\ hwDisconnects' = hwDisconnects + 1
  /\ devRet' = DevRet("disconnect", "Ok")
  /\ UNCHANGED <<tcdPc, tcdRet, tcdClaimed, connOut, createOut, connectCalls, createCalls, device,
                 hwOps, devSubs>>
  /\ UNCHANGED otherThanDev

\* ButtplugDevice::message_attributes: the protocol's attribute map
message_attributes ==
  /\ CanCall
  /\ devCalls' = devCalls + 1
  /\ devRet' = DevRet("message_attributes", device.protocol.attributes)
  /\ UNCHANGED <<tcdPc, tcdRet, tcdClaimed, connOut, createOut, connectCalls, createCalls, device,
                 hwOps, hwDisconnects, devSubs>>
  /\ UNCHANGED otherThanDev

\* ButtplugDevice::parse_message: self.protocol.handle_command(device, message);
\* a supported command performs one operation on the handle
parse_message(msg) ==
  /\ CanCall
  /\ devCalls' = devCalls + 1
  /\ IF SupportsMessage(device.protocol, msg) = "Ok"
       THEN /\ hwOps' = hwOps + 1
            /\ devRet' = DevRet("parse_message", "Ok")
       ELSE /\ hwOps' = hwOps
            /\ devRet' = DevRet("parse_message", "UnhandledCommand")
  /\ UNCHANGED <<tcdPc, tcdRet, tcdClaimed, connOut, createOut, connectCalls, createCalls, device,
                 hwDisconnects, devSubs>>
  /\ UNCHANGED otherThanDev

\* ButtplugDevice::event_stream: self.device.event_stream()
device_event_stream ==
  /\ CanCall
  /\ devCalls' = devCalls + 1
  /\ devSubs' = devSubs + 1
  /\ devRet' = DevRet("event_stream", "receiver")
  /\ UNCHANGED <<tcdPc, tcdRet, tcdClaimed, connOut, createOut, connectCalls, createCalls, device,
                 hwOps, hwDisconnects>>
  /\ UNCHANGED otherThanDev

DevNext ==
  \/ \E claimed \in BOOLEAN : try_create_device(claimed)
  \/ \E out \in ConnectOutcomes : TcdConnected(out)
  \/ \E out \in CreateOutcomes : TcdCreated(out)
  \/ device_identifier
  \/ display_name
  \/ \E n \in DisplayNames : set_display_name(n)
  \/ name
  \/ device_disconnect
  \/ message_attributes
  \/ \E msg \in Messages : parse_message(msg)
  \/ device_event_stream

(***************************************************************************)
(* Specifications: one per component, the other components at rest.        *)
(***************************************************************************)
Init == HwInit /\ MgrInit /\ DevInit

SpecHw == Init /\ [][HwNext]_vars
SpecHwEvents == Init /\ [][HwEventsNext]_vars

SpecMgr == Init /\ [][MgrNext]_vars

\* the runtime polls every future that can make progress: a send that can
\* complete does complete
SpecMgrFair == SpecMgr /\ \A c \in Callers : WF_vars(SendAwait(c))

SpecDev == Init /\ [][DevNext]_vars

(***************************************************************************)
(* Properties of the polling hardware (SpecHw).                            *)
(***************************************************************************)
\* a step in which the monitoring task made a query
IsPollStep == polls' = polls + 1
\* a step in which HardwareInternal operation `op` was invoked
IsCall(op) == calls' = calls + 1 /\ hwRet'.op = op
\* the value a raw battery report is expected to be cached as
Clamped(raw) == IF raw < 0 THEN 0 ELSE IF raw > 100 THEN 100 ELSE raw

\* C1: the monitoring task emits one Disconnected event and, once it has
\* emitted it, makes no further query and emits no second Disconnected
\* event, whatever the service reports afterwards.
C1_DisconnectOnce ==
  [][emitted >= 1 => (polls' = polls /\ emitted' = emitted)]_vars

\* C6: the cached battery level is 100 at construction and always within
\* [0,100]; it changes only in a query that finds the toy connected, which
\* stores the clamped raw value, emits nothing and leaves the task polling;
\* read_value returns Ok with the cached value as its one byte, issues no
\* request and changes no state.
C6_BatteryCache ==
  /\ battery_level = 100
  /\ [][/\ battery_level' \in 0..100
        /\ battery_level' # battery_level
             => IsPollStep /\ lastPoll'.kind = "connected"
        /\ (IsPollStep /\ lastPoll'.kind = "connected")
             => /\ battery_level' = Clamped(lastPoll'.raw)
                /\ emitted' = emitted
                /\ subs' = subs
                /\ taskPc' = "polling"
        /\ IsCall("read_value")
             => /\ hwRet'.kind = "Ok"
                /\ hwRet'.data = <<battery_level>>
                /\ UNCHANGED <<toy_id, taskPc, battery_level, polls, emitted,
                               subs, netCalls, lastPoll, lastWrite>>
       ]_vars
C6_Witness ==
  /\ lastPoll = [kind |-> "connected", raw |-> 101]
  /\ hwRet = OkData("read_value", <<100>>)

\* C7: subscribe and unsubscribe always fail with UnhandledCommand and leave
\* the task, the battery cache, the events, the receivers and the request
\* count unchanged.
C7_SubscribeUnsupported ==
  [][(IsCall("subscribe") \/ IsCall("unsubscribe"))
       => /\ hwRet'.kind = "Err"
          /\ hwRet'.err = "UnhandledCommand"
          /\ UNCHANGED <<toy_id, taskPc, battery_level, polls, emitted,
                         subs, netCalls, lastPoll, lastWrite>>
    ]_vars
C7_Witness ==
  /\ hwRet = Err("subscribe", "UnhandledCommand")
  /\ calls = 2
  /\ Len(subs) = 1
  /\ taskPc = "exited"

C9_FailedQueryTerminates ==
  [][/\ (IsPollStep /\ lastPoll'.kind = "failed")
          => /\ emitted' = emitted + 1
             /\ Len(subs') = Len(subs)
             /\ \A i \in 1..Len(subs) :
                  IF subMeta[i].live
                    THEN /\ subs'[i] # <<>>
                         /\ subs'[i][Len(subs'[i])] = [type |-> "Disconnected", id |-> toy_id]
                         /\ subMeta'[i].pos[Len(subs'[i])] = emitted'
                         /\ Len(subs'[i]) \in {Len(subs[i]), Len(subs[i]) + 1}
                    ELSE subs'[i] = subs[i]
             /\ taskPc' = "exited"
     /\ taskPc = "exited"
          => /\ taskPc' = "exited"
             /\ polls' = polls
             /\ emitted' = emitted
             /\ \A i \in 1..Len(subs) : Len(subs'[i]) <= Len(subs[i])
    ]_vars
C9_Witness ==
  /\ lastPoll.kind = "failed"
  /\ taskPc = "exited"
  /\ polls = 2
  /\ Len(subs) = 1
  /\ subs[1] = <<[type |-> "Disconnected", id |-> toy_id]>>

\* a request outcome that is a success: a response with a 2xx status
HttpSuccess(w) == w.made /\ w.response /\ w.status \in 200..299

\* C10 as claimed: write_value returns Ok only when its request had a
\* success outcome.
C10_OkOnlyOnSuccess ==
  (hwRet.op = "write_value" /\ hwRet.kind = "Ok") => HttpSuccess(lastWrite)
\* C10 as amended: a write_value with a valid UTF-8 payload issues exactly
\* one request; it returns Ok whenever the request yields a response,
\* whatever its status, and an UnhandledCommand error exactly when no
\* response was obtained; an invalid payload panics before any request.
C10_OkOnAnyResponse ==
  [][IsCall("write_value")
       => /\ UNCHANGED <<toy_id, taskPc, battery_level, polls, emitted, subs, lastPoll>>
          /\ lastWrite'.utf8
               => /\ netCalls' = netCalls + 1
                  /\ lastWrite'.response => hwRet'.kind = "Ok"
                  /\ ~lastWrite'.response
                       => hwRet'.kind = "Err" /\ hwRet'.err = "UnhandledCommand"
          /\ ~lastWrite'.utf8
               => netCalls' = netCalls /\ hwRet'.kind = "Panic"
    ]_vars
C10_Witness ==
  /\ hwRet = Ok("write_value")
  /\ lastWrite = [utf8 |-> TRUE, response |-> TRUE, status |-> 500, made |-> TRUE]
  /\ netCalls = 1

\* C15: once disconnect() has completed on the handle, every read_value,
\* write_value, subscribe or unsubscribe on it returns an error result: it
\* neither succeeds nor panics.
C15_FailsAfterDisconnect ==
  [][(disconnected /\ (\/ IsCall("read_value") \/ IsCall("write_value")
                       \/ IsCall("subscribe") \/ IsCall("unsubscribe")))
       => hwRet'.kind = "Err"]_vars

NoLiveReceiver == \A i \in 1..Len(subs) : ~subMeta[i].live

\* C17: the hardware is created with no receiver; a failed query that finds
\* no live receiver still counts as the task's send and ends the task, and
\* its event reaches nobody; once the task has ended, a receiver created by
\* event_stream() starts empty and no receiver ever gains an event, so a
\* receiver created after the task's end holds and has taken nothing.
C17_LateSubscriberGetsNothing ==
  /\ subs = <<>>
  /\ [][/\ (IsPollStep /\ lastPoll'.kind = "failed" /\ NoLiveReceiver)
             => /\ taskPc' = "exited"
                /\ emitted' = emitted + 1
                /\ subs' = subs
                /\ \A i \in 1..Len(subs) : subs'[i] = <<>>
        /\ taskPc = "exited"
             => /\ taskPc' = "exited"
                /\ emitted' = emitted
                /\ \A i \in 1..Len(subs') :
                     IF i > Len(subs) THEN subs'[i] = <<>> /\ subMeta'[i].since = emitted
                     ELSE Len(subs'[i]) <= Len(subs[i])
        /\ taskPc' = "exited"
             => \A i \in 1..Len(subs') :
                  subMeta'[i].since = emitted'
                    => subs'[i] = <<>> /\ subMeta'[i].got = 0
       ]_vars
C17_Witness ==
  /\ taskPc = "exited"
  /\ polls = 1
  /\ emitted = 1
  /\ lastPoll.kind = "failed"
  /\ Len(subs) = 2
  /\ subs[1] = <<>> /\ subs[2] = <<>>
  /\ subMeta[1].live /\ subMeta[1].since = 1 /\ subMeta[1].got = 0
  /\ subMeta[2].live /\ subMeta[2].since = 1 /\ subMeta[2].got = 0

InCall(c) == callPc[c] \in {"sending", "suspended"}

\* C2: once the background task has exited, every start_scanning and
\* stop_scanning call that completes does so with DeviceNotAvailable, never
\* Ok, and every call in progress does complete, whether or not it was
\* waiting on a full channel.
C2_ClosedChannelFails ==
  /\ [][\A c \in Callers :
          (rxDropped /\ InCall(c) /\ callPc'[c] = "returned")
            => callRet'[c].kind = "DeviceNotAvailable"]_vars
  /\ \A c \in Callers : (rxDropped /\ InCall(c)) ~> (callPc[c] = "returned")
C2_Witness ==
  /\ rxDropped
  /\ callPc = [c \in Callers |-> "returned"]
  /\ callCmd["c1"] = "StartScanning"
  /\ callRet["c1"] = [kind |-> "DeviceNotAvailable", waited |-> TRUE]
  /\ callCmd["c2"] = "StopScanning"
  /\ callRet["c2"] = [kind |-> "DeviceNotAvailable", waited |-> FALSE]

\* the Adapter Command a method is to send
CommandOf(method) == IF method = "start_scanning" THEN "StartScanning" ELSE "StopScanning"
IsPrefix(p, q) == Len(p) <= Len(q) /\ p = SubSeq(q, 1, Len(p))

\* C11: a start_scanning / stop_scanning call enqueues nothing before its
\* send resolves; a call that returns Ok has appended exactly its own command
\* (StartScanning resp. StopScanning) to the channel, without the task having
\* taken anything in that step, and a call that fails has appended nothing;
\* only such a step adds a completed send; while the task is alive the commands it has
\* taken followed by those still buffered are exactly the completed sends in
\* completion order, and what it has taken is always a prefix of them.
C11_OrderedSends ==
  [][/\ \A c \in Callers :
          (InCall(c) /\ callPc'[c] = "returned" /\ callRet'[c].kind = "Ok")
            => /\ cmdQueue' = Append(cmdQueue, CommandOf(callOp[c]))
               /\ sent' = Append(sent, CommandOf(callOp[c]))
               /\ received' = received
     /\ \A c \in Callers :
          (InCall(c) /\ callPc'[c] = "returned" /\ callRet'[c].kind # "Ok")
            => cmdQueue' = cmdQueue /\ sent' = sent
     /\ sent' # sent
          => \E c \in Callers :
               InCall(c) /\ callPc'[c] = "returned" /\ callRet'[c].kind = "Ok"
     /\ \A c \in Callers :
          (~InCall(c) /\ callPc'[c] = "sending")
            => cmdQueue' = cmdQueue /\ sent' = sent
     /\ ~rxDropped' => received' \o cmdQueue' = sent'
     /\ IsPrefix(received', sent')
    ]_vars
C11_Witness ==
  /\ ~rxDropped
  /\ received = <<"StartScanning">>
  /\ cmdQueue = <<"StopScanning", "StartScanning">>
  /\ callOp["c2"] = "start_scanning"
  /\ callRet["c2"].kind = "Ok"
  /\ callPc["c2"] = "returned"

\* C12 as claimed: every start_scanning / stop_scanning call eventually
\* completes, also when the task is alive and no longer takes commands.
C12_NeverBlocks ==
  \A c \in Callers : InCall(c) ~> (callPc[c] = "returned")
\* C12 as amended: a call is suspended only when the channel is full and
\* open; it completes only with Ok or DeviceNotAvailable; and if the task
\* keeps taking commands or exits, every call eventually completes.
C12_CompletesIfDrained ==
  /\ [][\A c \in Callers :
          /\ (callPc[c] = "sending" /\ callPc'[c] = "suspended")
               => (Len(cmdQueue) = ChannelBound /\ ~rxDropped)
          /\ (InCall(c) /\ callPc'[c] = "returned")
               => callRet'[c].kind \in {"Ok", "DeviceNotAvailable"}]_vars
  /\ WF_vars(TaskRecv \/ TaskExit)
       => \A c \in Callers : InCall(c) ~> (callPc[c] = "returned")
C12_Witness ==
  /\ ~rxDropped
  /\ Len(cmdQueue) < ChannelBound
  /\ callRet["c1"] = [kind |-> "Ok", waited |-> TRUE]

\* C19: every flag scanning_status() has returned reads false, whatever
\* calls were made and whatever the task is doing; a call adds one new flag
\* and no step changes a flag returned earlier.
C19_StatusAlwaysFalse ==
  [][/\ \A i \in 1..Len(flags') : flags'[i] = FALSE
     /\ Len(flags') >= Len(flags)
     /\ \A i \in 1..Len(flags) : flags'[i] = flags[i]
     /\ Len(flags') # Len(flags)
          => /\ Len(flags') = Len(flags) + 1
             /\ UNCHANGED <<cmdQueue, rxDropped, received, sent, taskScanning>>
    ]_vars
C19_Witness ==
  /\ taskScanning
  /\ Len(flags) = 2
  /\ flags[1] = FALSE /\ flags[2] = FALSE
  /\ \E c \in Callers : callRet[c].kind = "Ok"

(***************************************************************************)
(* Properties of the device (SpecDev).                                     *)
(***************************************************************************)
\* a step in which ButtplugDevice method `op` was invoked
IsDevCall(op) == devCalls' = devCalls + 1 /\ devRet'.op = op
\* the connector / the protocol factory has answered
Connected == tcdPc \in {"creating", "returned"}
Created == tcdPc = "returned" /\ createCalls = 1

\* C3: the connector is called first and once; the protocol factory is
\* called only after the connector succeeded; a connector error is returned
\* as it is with the factory never called; a factory error is returned with
\* no Device; a Device exists only when both succeeded, and it holds the
\* connected handle and the created protocol.
C3_StagedConstruction ==
  /\ connectCalls <= 1 /\ createCalls <= connectCalls
  /\ createCalls >= 1 => (Connected /\ connOut.ok)
  /\ (Connected /\ ~connOut.ok)
       => /\ tcdRet = [kind |-> "Err", err |-> connOut.err]
          /\ createCalls = 0
          /\ connectCalls = 1
          /\ ~device.built
  /\ (Created /\ ~createOut.ok)
       => /\ tcdRet = [kind |-> "Err", err |-> createOut.err]
          /\ ~device.built
  /\ device.built <=> tcdRet.kind = "OkSome"
  /\ device.built
       => /\ connOut.ok /\ createOut.ok
          /\ device.device = connOut.impl
          /\ device.protocol = createOut.protocol
C3_Witness ==
  /\ tcdPc = "returned"
  /\ connectCalls = 1
  /\ createCalls = 0
  /\ tcdRet = [kind |-> "Err", err |-> "DeviceConnectionError"]

\* C13: when try_create_device has returned for a device that the protocol
\* passed in does not claim, and the connect did not fail, its result is
\* Ok(None); and an Err result is returned only when the connect or the
\* protocol initialization failed.
C13_MismatchYieldsNone ==
  /\ (tcdPc = "returned" /\ ~tcdClaimed /\ connOut.ok) => tcdRet.kind = "OkNone"
  /\ (tcdPc = "returned" /\ tcdRet.kind = "Err")
       => (~connOut.ok \/ (connOut.ok /\ ~createOut.ok))

\* C4: the identifier of a constructed Device is (handle address, protocol
\* identifier, protocol attributes identifier) of what it was constructed
\* from; no step changes it, and device_identifier() returns it.
C4_IdentifierStable ==
  [][/\ device'.built
          => device'.device_identifier =
               <<connOut'.impl.address, createOut'.protocol.identifier,
                 createOut'.protocol.attributes>>
     /\ device.built
          => device'.built /\ device'.device_identifier = device.device_identifier
     /\ IsDevCall("device_identifier")
          => devRet'.value = device.device_identifier /\ device' = device
    ]_vars
C4_Witness ==
  /\ device.built
  /\ device.display_name = Some("Bob")
  /\ devCalls = 3
  /\ devRet = DevRet("device_identifier", <<"addr2", "lovense", "P">>)

\* C14: a constructed Device has no display name; display_name() returns
\* the cell's content, None while nothing was set; the first set stores its
\* value and only a set can store one; a cell that holds Some(x) holds it
\* after every step, a further set included, so that once display_name()
\* has returned Some(x) the cell holds x and every later call returns Some(x).
C14_DisplayNameWriteOnce ==
  [][/\ (~device.built /\ device'.built) => device'.display_name = None
     /\ IsDevCall("display_name")
          => devRet'.value = device.display_name /\ device' = device
     /\ (device.built /\ device.display_name.some)
          => device'.built /\ device'.display_name = device.display_name
     /\ (IsDevCall("set_display_name") /\ ~device.display_name.some)
          => device'.display_name \in {Some(n) : n \in DisplayNames}
     /\ (device.built /\ ~device.display_name.some /\ device'.display_name.some)
          => IsDevCall("set_display_name")
     /\ (devRet'.op = "display_name" /\ devRet'.value.some)
          => device'.display_name = devRet'.value
    ]_vars
C14_Witness ==
  /\ device.built
  /\ device.display_name = Some("Alice")
  /\ devCalls = 3
  /\ devRet = DevRet("set_display_name", FALSE)

\* C5: name() returns the protocol's name followed by " (Raw Messages
\* Allowed)" exactly when the protocol supports a RawSubscribeCmd on Tx, and
\* the protocol's name otherwise; it reaches the handle with no operation
\* and changes nothing; no step changes the protocol that decides it.
C5_RawSuffix ==
  [][/\ IsDevCall("name")
          => LET p  == device.protocol
                 ok == SupportsMessage(p, [type |-> "RawSubscribeCmd", endpoint |-> "Tx"]) = "Ok"
             IN  /\ (devRet'.value = p.name \o " (Raw Messages Allowed)") <=> ok
                 /\ ~ok => devRet'.value = p.name
                 /\ UNCHANGED <<device, hwOps, hwDisconnects, devSubs>>
     /\ device.built => (device'.built /\ device'.protocol = device.protocol)
    ]_vars
C5_Witness ==
  /\ devRet = DevRet("name", "Lovense Hush (Raw Messages Allowed)")
  /\ device.protocol.raw
  /\ hwOps = 1
  /\ devCalls = 2

====
